---- MODULE Spec2Model ----
(***************************************************************************)
(* protarrow: protobuf messages <-> Arrow record batches.                  *)
(*                                                                         *)
(* proto_to_arrow.py (the array builder) and arrow_to_proto.py (the        *)
(* extractor) are modelled as operators over message values, descriptors   *)
(* and Arrow arrays.  The protobuf runtime and the Arrow kernel are the    *)
(* external collaborators; the operators that stand for them (getattr,     *)
(* HasField, the array constructors) are mapped to the call sites that     *)
(* use them.                                                               *)
(*                                                                         *)
(* Message values.  A message is a function from field names to field      *)
(* states:                                                                 *)
(*   singular primitive (no presence)   the value                          *)
(*   singular primitive in a oneof      << >> (not the case) or <<v>>       *)
(*   singular sub-message               << >> (unset) or <<m>> (present)    *)
(*   repeated field                     a sequence of elements             *)
(*   map field                          a function key -> value            *)
(* Two messages are equal exactly when these representations are equal.    *)
(*                                                                         *)
(* Arrow arrays.  Every element of a primitive array is << >> (null) or    *)
(* <<v>>; struct arrays carry one validity bit per slot; list and map      *)
(* arrays carry an offsets vector and flattened children.                  *)
(***************************************************************************)
EXTENDS Integers, Sequences, FiniteSets, TLC

VARIABLES
    message_type,     \* the message type T handed to both directions
    key_order,        \* the order in which the runtime iterates map keys
    config,           \* the ProtarrowConfig handed to the builder
    source_messages,  \* the caller's messages (input of the builder)
    table,            \* the Arrow table: a sequence of record batches
    messages_back,    \* the list returned by the extractor
    error,            \* "" or the exception the call surfaced
    pc                \* "start", "encoded", "decoded"

vars == <<message_type, key_order, config, source_messages, table, messages_back, error, pc>>

----------------------------------------------------------------------------
(* Bounds of the model *)

\* at most this many messages in an input sequence / rows in a batch
MaxRows == 2
\* at most this many elements in a repeated field, or in a flattened child
MaxLen == 2

----------------------------------------------------------------------------
(* Descriptors *)

PRIMITIVES == <<"TYPE_DOUBLE", "TYPE_FLOAT", "TYPE_INT32", "TYPE_INT64", "TYPE_UINT32",
                "TYPE_UINT64", "TYPE_BOOL", "TYPE_STRING", "TYPE_BYTES">>

ShortName == <<"double", "float", "int32", "int64", "uint32", "uint64", "bool", "string", "bytes">>

WrapperName == <<"DoubleValue", "FloatValue", "Int32Value", "Int64Value", "UInt32Value",
                 "UInt64Value", "BoolValue", "StringValue", "BytesValue">>

PrimitiveIndex == 1..Len(PRIMITIVES)

NULLABLE_TYPES == {WrapperName[i] : i \in PrimitiveIndex}

SPECIAL_TYPES == {"Timestamp", "Date", "TimeOfDay"}

FieldDescriptor(name, type, label, message_type_, containing_oneof) ==
    [name |-> name, type |-> type, label |-> label,
     message_type |-> message_type_, containing_oneof |-> containing_oneof,
     enum_type |-> IF type = "TYPE_ENUM" THEN "Color" ELSE ""]

Singular(name, type) == FieldDescriptor(name, type, "LABEL_OPTIONAL", "", "")
SingularMessage(name, T) == FieldDescriptor(name, "TYPE_MESSAGE", "LABEL_OPTIONAL", T, "")
Repeated(name, type) == FieldDescriptor(name, type, "LABEL_REPEATED", "", "")
RepeatedMessage(name, T) == FieldDescriptor(name, "TYPE_MESSAGE", "LABEL_REPEATED", T, "")
OneofMember(name, type, group) == FieldDescriptor(name, type, "LABEL_OPTIONAL", "", group)

MessageDescriptor(fields, map_entry) == [fields |-> fields, map_entry |-> map_entry]

\* the enumeration of the enum fields: its values by number and by name
EnumDescriptor(E) ==
    [values_by_number |-> (0 :> "RED" @@ 1 :> "GREEN"),
     values_by_name |-> ("RED" :> 0 @@ "GREEN" :> 1)]

\* one test message per primitive kind: <p>_value and wrapped_<p>
ScalarMessage(i) == "Test_" \o ShortName[i]
ScalarMessages == {ScalarMessage(i) : i \in PrimitiveIndex}
ScalarIndex(T) == CHOOSE i \in PrimitiveIndex : ScalarMessage(i) = T
WrapperIndex(T) == CHOOSE i \in PrimitiveIndex : WrapperName[i] = T

DescriptorTable(T) ==
    CASE T \in NULLABLE_TYPES ->
            MessageDescriptor(<<Singular("value", PRIMITIVES[WrapperIndex(T)])>>, FALSE)
      [] T \in ScalarMessages ->
            MessageDescriptor(
                <<Singular(ShortName[ScalarIndex(T)] \o "_value", PRIMITIVES[ScalarIndex(T)]),
                  SingularMessage("wrapped_" \o ShortName[ScalarIndex(T)],
                                  WrapperName[ScalarIndex(T)])>>, FALSE)
      [] T = "Timestamp" ->
            MessageDescriptor(<<Singular("seconds", "TYPE_INT64"),
                                Singular("nanos", "TYPE_INT32")>>, FALSE)
      [] T = "Stamped" -> MessageDescriptor(<<SingularMessage("ts", "Timestamp")>>, FALSE)
      [] T = "EnumMsg" -> MessageDescriptor(<<Singular("color", "TYPE_ENUM")>>, FALSE)
      [] T = "RepeatedEnum" -> MessageDescriptor(<<Repeated("colors", "TYPE_ENUM")>>, FALSE)
      [] T = "StrEnumEntry" ->
            MessageDescriptor(<<Singular("key", "TYPE_STRING"),
                                Singular("value", "TYPE_ENUM")>>, TRUE)
      [] T = "EnumMap" ->
            MessageDescriptor(<<RepeatedMessage("str_enum_map", "StrEnumEntry")>>, FALSE)
      [] T = "SubMsg" -> MessageDescriptor(<<Singular("x", "TYPE_INT32")>>, FALSE)
      [] T = "Bag" -> MessageDescriptor(<<Repeated("xs", "TYPE_INT32")>>, FALSE)
      [] T = "Mid" -> MessageDescriptor(<<SingularMessage("inner", "SubMsg")>>, FALSE)
      [] T = "RepeatedInt" ->
            MessageDescriptor(<<Repeated("repeated_int32", "TYPE_INT32")>>, FALSE)
      [] T = "RepeatedMsg" ->
            MessageDescriptor(<<RepeatedMessage("repeated_msg", "SubMsg")>>, FALSE)
      [] T = "RepeatedWrapped" ->
            MessageDescriptor(<<RepeatedMessage("repeated_wrapped", "Int32Value")>>, FALSE)
      [] T = "Nested" -> MessageDescriptor(<<SingularMessage("nested", "Mid")>>, FALSE)
      [] T = "Holder" -> MessageDescriptor(<<SingularMessage("bag", "Bag")>>, FALSE)
      [] T = "Outer" -> MessageDescriptor(<<SingularMessage("group", "RepeatedMsg")>>, FALSE)
      [] T = "Choice" ->
            MessageDescriptor(<<OneofMember("a", "TYPE_INT32", "choice"),
                                OneofMember("b", "TYPE_INT32", "choice")>>, FALSE)
      [] T = "StrIntEntry" ->
            MessageDescriptor(<<Singular("key", "TYPE_STRING"),
                                Singular("value", "TYPE_INT32")>>, TRUE)
      [] T = "StrMsgEntry" ->
            MessageDescriptor(<<Singular("key", "TYPE_STRING"),
                                SingularMessage("value", "SubMsg")>>, TRUE)
      [] T = "StrBagEntry" ->
            MessageDescriptor(<<Singular("key", "TYPE_STRING"),
                                SingularMessage("value", "Bag")>>, TRUE)
      [] T = "StrWrappedEntry" ->
            MessageDescriptor(<<Singular("key", "TYPE_STRING"),
                                SingularMessage("value", "Int32Value")>>, TRUE)
      [] T = "WrappedMap" ->
            MessageDescriptor(<<RepeatedMessage("str_wrapped_map", "StrWrappedEntry")>>,
                              FALSE)
      [] T = "IntMap" ->
            MessageDescriptor(<<RepeatedMessage("str_int_map", "StrIntEntry")>>, FALSE)
      [] T = "MsgMap" ->
            MessageDescriptor(<<RepeatedMessage("str_msg_map", "StrMsgEntry")>>, FALSE)
      [] T = "BagMap" ->
            MessageDescriptor(<<RepeatedMessage("str_bag_map", "StrBagEntry")>>, FALSE)

\* the descriptor of message type T; every field knows its containing type
DESCRIPTOR(T) ==
    LET d == DescriptorTable(T)
    IN  [d EXCEPT !.fields = [i \in 1..Len(d.fields) |->
                                 d.fields[i] @@ [containing_type |-> T]]]

fields_by_name(T, name) ==
    LET fields == DESCRIPTOR(T).fields
    IN  fields[CHOOSE i \in 1..Len(fields) : fields[i].name = name]

\* field.message_type and field.message_type.GetOptions().map_entry
is_map_field(field) ==
    field.message_type # "" /\ DESCRIPTOR(field.message_type).map_entry

\* the message types handed to the two directions
MessageTypes ==
    ScalarMessages \cup {"RepeatedInt", "RepeatedMsg", "RepeatedWrapped", "Nested",
                         "Holder", "Choice", "IntMap", "MsgMap", "Stamped",
                         "EnumMsg", "WrappedMap"}

----------------------------------------------------------------------------
(* Values of the message runtime *)

\* a zero value and one other value of every primitive kind
PrimitiveValues(type) ==
    CASE type = "TYPE_BOOL" -> {FALSE, TRUE}
      [] type \in {"TYPE_STRING", "TYPE_BYTES"} -> {"", "a"}
      [] OTHER -> {0, 1}

\* map keys the inputs draw from
KeyValues == {"a", "b"}

KeyOrders == {<<"a", "b">>, <<"b", "a">>}

default_value(field) ==
    CASE field.type = "TYPE_BOOL" -> FALSE
      [] field.type \in {"TYPE_STRING", "TYPE_BYTES"} -> ""
      [] OTHER -> 0

EmptyMessage == [n \in {} |-> 0]

RECURSIVE DefaultField(_), DefaultFields(_, _), DefaultMessage(_)

DefaultField(field) ==
    IF field.label = "LABEL_REPEATED" THEN <<>>
    ELSE IF field.type = "TYPE_MESSAGE" \/ field.containing_oneof # "" THEN <<>>
    ELSE default_value(field)

DefaultFields(fields, i) ==
    IF i > Len(fields) THEN EmptyMessage
    ELSE (fields[i].name :> DefaultField(fields[i])) @@ DefaultFields(fields, i + 1)

\* message_type(): every field unset
DefaultMessage(T) == DefaultFields(DESCRIPTOR(T).fields, 1)

\* record.HasField(field_name)
HasField(message, field_name) == message[field_name] # <<>>

\* getattr(message, field.name): reading never changes the message
getattr(message, field) ==
    IF field.label = "LABEL_REPEATED" THEN message[field.name]
    ELSE IF field.type = "TYPE_MESSAGE"
         THEN IF message[field.name] = <<>> THEN DefaultMessage(field.message_type)
              ELSE message[field.name][1]
    ELSE IF field.containing_oneof # ""
         THEN IF message[field.name] = <<>> THEN default_value(field)
              ELSE message[field.name][1]
    ELSE message[field.name]

SeqsUpTo(S, n) == UNION {[1..k -> S] : k \in 0..n}

RECURSIVE Messages(_), FieldValues(_), AllFields(_, _)

\* the nanos a Timestamp is drawn with
NanosValues == {0, 123456789}

ElementValues(field) ==
    IF field.type = "TYPE_MESSAGE" THEN Messages(field.message_type)
    ELSE IF field.name = "nanos" THEN NanosValues
    ELSE PrimitiveValues(field.type)

FieldValues(field) ==
    IF is_map_field(field)
    THEN LET value_field == fields_by_name(field.message_type, "value")
         IN  UNION {[S -> ElementValues(value_field)] :
                        S \in {K \in SUBSET KeyValues : Cardinality(K) <= MaxLen}}
    ELSE IF field.label = "LABEL_REPEATED" THEN SeqsUpTo(ElementValues(field), MaxLen)
    ELSE IF field.type = "TYPE_MESSAGE"
         THEN {<<>>} \cup {<<m>> : m \in Messages(field.message_type)}
    ELSE IF field.containing_oneof # ""
         THEN {<<>>} \cup {<<v>> : v \in PrimitiveValues(field.type)}
    ELSE ElementValues(field)

AllFields(fields, i) ==
    IF i > Len(fields) THEN {EmptyMessage}
    ELSE {(fields[i].name :> v) @@ m :
              v \in FieldValues(fields[i]), m \in AllFields(fields, i + 1)}

\* at most one member of a oneof group is the case
OneofOk(T, m) ==
    LET fields == DESCRIPTOR(T).fields
    IN  \A i, j \in 1..Len(fields) :
            (i # j /\ fields[i].containing_oneof # ""
                   /\ fields[i].containing_oneof = fields[j].containing_oneof)
            => (m[fields[i].name] = <<>> \/ m[fields[j].name] = <<>>)

\* the messages of type T within the bounds
Messages(T) == {m \in AllFields(DESCRIPTOR(T).fields, 1) : OneofOk(T, m)}

----------------------------------------------------------------------------
(* Arrow types and arrays *)

pa(id) == [id |-> id]

pa_field(name, type, nullable) == [name |-> name, type |-> type, nullable |-> nullable]

pa_list_(item_field) == [id |-> "list", item |-> item_field]

pa_struct(fields) == [id |-> "struct", fields |-> fields]

pa_map_(key_type, item_type) == [id |-> "map", key_type |-> key_type, item_type |-> item_type]

pa_dictionary(index_type, value_type) ==
    [id |-> "dictionary", index_type |-> index_type, value_type |-> value_type]

_PA_TIMESTAMP_TYPE == [id |-> "timestamp", unit |-> "ns", tz |-> "UTC"]

_PA_TIME_TYPE == [id |-> "time64", unit |-> "ns"]

_PROTO_DESCRIPTOR_TO_PYARROW ==
    [T \in {"Date", "Timestamp", "TimeOfDay"} \cup NULLABLE_TYPES |->
        CASE T = "Date" -> pa("date32")
          [] T = "Timestamp" -> _PA_TIMESTAMP_TYPE
          [] T = "TimeOfDay" -> _PA_TIME_TYPE
          [] T = "BoolValue" -> pa("bool")
          [] T = "BytesValue" -> pa("binary")
          [] T = "DoubleValue" -> pa("float64")
          [] T = "FloatValue" -> pa("float32")
          [] T = "Int32Value" -> pa("int32")
          [] T = "Int64Value" -> pa("int64")
          [] T = "StringValue" -> pa("string")
          [] T = "UInt32Value" -> pa("uint32")
          [] T = "UInt64Value" -> pa("uint64")]

_PROTO_PRIMITIVE_TYPE_TO_PYARROW ==
    [type \in {"TYPE_DOUBLE", "TYPE_FLOAT", "TYPE_INT64", "TYPE_UINT64", "TYPE_INT32",
               "TYPE_FIXED64", "TYPE_FIXED32", "TYPE_BOOL", "TYPE_STRING", "TYPE_BYTES",
               "TYPE_UINT32", "TYPE_ENUM", "TYPE_SFIXED32", "TYPE_SFIXED64",
               "TYPE_SINT32", "TYPE_SINT64"} |->
        CASE type = "TYPE_DOUBLE" -> pa("float64")
          [] type = "TYPE_FLOAT" -> pa("float32")
          [] type \in {"TYPE_INT64", "TYPE_SFIXED64", "TYPE_SINT64"} -> pa("int64")
          [] type \in {"TYPE_UINT64", "TYPE_FIXED64"} -> pa("uint64")
          [] type \in {"TYPE_INT32", "TYPE_SFIXED32", "TYPE_SINT32"} -> pa("int32")
          [] type \in {"TYPE_UINT32", "TYPE_FIXED32"} -> pa("uint32")
          [] type = "TYPE_BOOL" -> pa("bool")
          [] type = "TYPE_STRING" -> pa("string")
          [] type \in {"TYPE_BYTES", "TYPE_ENUM"} -> pa("binary")]

\* pa.array(values, type): None becomes a null element
pa_array(values, type) == [kind |-> "primitive", type |-> type, values |-> values]

\* pa.ListArray.from_arrays(offsets, values, type)
ListArray_from_arrays(offsets, values, type) ==
    [kind |-> "list", type |-> type, offsets |-> offsets, values |-> values]

\* pa.MapArray.from_arrays(offsets, keys, items)
MapArray_from_arrays(offsets, keys, items) ==
    [kind |-> "map", type |-> pa_map_(keys.type, items.type),
     offsets |-> offsets, keys |-> keys, items |-> items]

\* len(array)
ArrayLen(array) ==
    CASE array.kind = "primitive" -> Len(array.values)
      [] array.kind \in {"list", "map"} -> Len(array.offsets) - 1
      [] array.kind = "struct" -> Len(array.valid)

\* pa.StructArray.from_arrays(arrays, fields, mask): a slot is valid unless masked;
\* without a mask the length is the children's
StructArray_from_arrays(arrays, fields, mask) ==
    [kind |-> "struct", type |-> pa_struct(fields), children |-> arrays,
     valid |-> IF mask = <<>> THEN [i \in 1..ArrayLen(arrays[1]) |-> TRUE]
               ELSE [i \in 1..Len(mask[1]) |-> ~mask[1][i]]]

----------------------------------------------------------------------------
(* proto_to_arrow.py: the array builder *)

RECURSIVE Flatten(_, _)
Flatten(parents, i) ==
    IF i > Len(parents) THEN <<>> ELSE parents[i] \o Flatten(parents, i + 1)

\* for parent in parents: for child in parent: yield child
FlattenedIterable(parents) == Flatten(parents, 1)

\* for parent in parents: yield getter(parent)
NestedIterable(records, field) == [i \in 1..Len(records) |-> getattr(records[i], field)]

\* scalar_map.keys(), in the order the runtime iterates the map
MapKeys(scalar_map) == SelectSeq(key_order, LAMBDA k : k \in DOMAIN scalar_map)

MapKeyIterable(scalar_maps) ==
    Flatten([i \in 1..Len(scalar_maps) |-> MapKeys(scalar_maps[i])], 1)

MapValueIterable(scalar_maps) ==
    Flatten([i \in 1..Len(scalar_maps) |->
                [j \in 1..Len(MapKeys(scalar_maps[i])) |->
                    scalar_maps[i][MapKeys(scalar_maps[i])[j]]]], 1)

\* len(record) of a repeated container or a map container
len(record) == Cardinality(DOMAIN record)

RECURSIVE get_offsets_loop(_, _, _, _)
get_offsets_loop(records, i, last_offset, offsets) ==
    IF i > Len(records) THEN Append(offsets, last_offset)
    ELSE get_offsets_loop(records, i + 1, last_offset + len(records[i]),
                          Append(offsets, last_offset))

\* mutant: the closing offset is not appended
_get_offsets_open(records) ==
    LET offsets == get_offsets_loop(records, 1, 0, <<>>)
    IN  SubSeq(offsets, 1, Len(offsets) - 1)

\* the containers come from NestedIterable, which never yields None
_get_offsets(records) == get_offsets_loop(records, 1, 0, <<>>)

\* mutant: every field is left at pa.field's default, nullable
_proto_field_nullable_default(field, is_struct) == TRUE

_proto_field_nullable(field, is_struct) ==
    field.type = "TYPE_MESSAGE" \/ (is_struct /\ field.label = "LABEL_REPEATED")

\* mutant: the mask does not ask the record
_proto_field_validity_mask_all(records, field) ==
    IF field.type # "TYPE_MESSAGE" \/ field.label = "LABEL_REPEATED" THEN <<>>
    ELSE <<[i \in 1..Len(records) |-> TRUE]>>

\* None is << >>, a list mask is <<mask>>
_proto_field_validity_mask(records, field) ==
    IF field.type # "TYPE_MESSAGE" \/ field.label = "LABEL_REPEATED" THEN <<>>
    ELSE <<[i \in 1..Len(records) |-> HasField(records[i], field.name)]>>

\* _PROTO_DESCRIPTOR_TO_ARROW_CONVERTER[T](x), for Timestamp (x.ToNanoseconds()) and
\* the wrappers (x.value)
descriptor_converter(T, x) ==
    IF T = "Timestamp" THEN x["seconds"] * 1000000000 + x["nanos"]
    ELSE x["value"]

RECURSIVE _message_to_array(_, _, _), _proto_field_to_array(_, _, _),
          _repeated_proto_to_array(_, _), _proto_map_to_array(_, _)

\* get_enum_converter(data_type, enum_descriptor)(x); a name as bytes and the name
\* as a string are the same characters
get_enum_converter(data_type, enum_descriptor, x) ==
    IF data_type.id = "int32" THEN x
    ELSE IF data_type.id = "binary"
            \/ (data_type.id = "dictionary" /\ data_type.value_type.id = "binary")
         THEN enum_descriptor.values_by_number[x]
    ELSE IF data_type.id = "string"
            \/ (data_type.id = "dictionary" /\ data_type.value_type.id = "string")
         THEN enum_descriptor.values_by_number[x]
    ELSE "TypeError"

\* pa_type of _proto_field_to_array for the fields that are no structs
field_pa_type(field) ==
    IF field.type = "TYPE_MESSAGE" THEN _PROTO_DESCRIPTOR_TO_PYARROW[field.message_type]
    ELSE IF field.type = "TYPE_ENUM" THEN config.enum_type
    ELSE _PROTO_PRIMITIVE_TYPE_TO_PYARROW[field.type]

\* converter(x) of _proto_field_to_array for the fields that are no structs
field_converter(field, x) ==
    IF field.type = "TYPE_MESSAGE" THEN descriptor_converter(field.message_type, x)
    ELSE IF field.type = "TYPE_ENUM"
         THEN get_enum_converter(config.enum_type, EnumDescriptor(field.enum_type), x)
    ELSE x

\* mutant: pa.array(array) without the type, which an empty list leaves as null
_proto_field_to_array_untyped(records, field, validity_mask) ==
    IF field.type = "TYPE_MESSAGE" /\ field.message_type \notin DOMAIN _PROTO_DESCRIPTOR_TO_PYARROW
    THEN _message_to_array(records, field.message_type, validity_mask)
    ELSE pa_array([i \in 1..Len(records) |->
                      IF ~(validity_mask = <<>> \/ validity_mask[1][i])
                      THEN IF field.type = "TYPE_MESSAGE" THEN <<>>
                           ELSE <<default_value(field)>>
                      ELSE <<field_converter(field, records[i])>>],
                  IF Len(records) = 0 THEN pa("null") ELSE field_pa_type(field))

\* mutant: a masked record is skipped instead of taking a null slot
_proto_field_to_array_compact(records, field, validity_mask) ==
    IF field.type = "TYPE_MESSAGE" /\ field.message_type \notin DOMAIN _PROTO_DESCRIPTOR_TO_PYARROW
    THEN _message_to_array(records, field.message_type, validity_mask)
    ELSE LET kept == SelectSeq([i \in 1..Len(records) |-> i],
                               LAMBDA i : validity_mask = <<>> \/ validity_mask[1][i])
         IN  pa_array([j \in 1..Len(kept) |-> <<field_converter(field, records[kept[j]])>>],
                      field_pa_type(field))

_proto_field_to_array(records, field, validity_mask) ==
    IF field.type = "TYPE_MESSAGE" /\ field.message_type \notin DOMAIN _PROTO_DESCRIPTOR_TO_PYARROW
    THEN _message_to_array(records, field.message_type, validity_mask)
    ELSE LET pa_type == field_pa_type(field)
             converter(x) == field_converter(field, x)
             null_value == IF field.type = "TYPE_MESSAGE" THEN <<>>
                           ELSE <<default_value(field)>>
         IN  pa_array([i \in 1..Len(records) |->
                          IF ~(validity_mask = <<>> \/ validity_mask[1][i])
                          THEN null_value
                          ELSE <<converter(records[i])>>],
                      pa_type)

_repeated_proto_to_array(records, field) ==
    LET offsets == _get_offsets(records)
        array == _proto_field_to_array(FlattenedIterable(records), field, <<>>)
    IN  ListArray_from_arrays(offsets, array,
            pa_list_(pa_field("item", array.type, field.type = "TYPE_MESSAGE")))

_proto_map_to_array(records, field) ==
    LET key_field == fields_by_name(field.message_type, "key")
        value_field == fields_by_name(field.message_type, "value")
        offsets == _get_offsets(records)
        keys == _proto_field_to_array(MapKeyIterable(records), key_field, <<>>)
        values == _proto_field_to_array(MapValueIterable(records), value_field, <<>>)
    IN  MapArray_from_arrays(offsets, keys, values)

\* the array of one field of the descriptor (the loop body of _message_to_array)
FieldArray(records, field) ==
    LET field_values == NestedIterable(records, field)
    IN  IF is_map_field(field) THEN _proto_map_to_array(field_values, field)
        ELSE IF field.label = "LABEL_REPEATED"
             THEN _repeated_proto_to_array(field_values, field)
        ELSE _proto_field_to_array(field_values, field,
                                   _proto_field_validity_mask(records, field))

_message_to_array(records, descriptor, validity_mask) ==
    LET fields == DESCRIPTOR(descriptor).fields
        arrays == [i \in 1..Len(fields) |-> FieldArray(records, fields[i])]
    IN  StructArray_from_arrays(
            arrays,
            [i \in 1..Len(fields) |->
                pa_field(fields[i].name, arrays[i].type,
                         _proto_field_nullable(fields[i], TRUE))],
            \* mask=pc.invert(validity_mask) if validity_mask else None
            IF validity_mask # <<>> /\ validity_mask[1] # <<>>
            THEN <<[i \in 1..Len(validity_mask[1]) |-> ~validity_mask[1][i]]>>
            ELSE <<>>)

\* pa.RecordBatch.from_struct_array keeps the struct's fields as the schema
messages_to_record_batch(records, T) == _message_to_array(records, T, <<>>)

\* pa.Table.from_batches([record_batch])
messages_to_table(records, T) == <<messages_to_record_batch(records, T)>>

----------------------------------------------------------------------------
(* The message runtime as the extractor uses it.  The extractor holds        *)
(* references to messages and writes through them: a handle names a message  *)
(* by a root object of the heap and the path of accesses that led to it.     *)
(* Any write through a handle makes every singular sub-message on its path   *)
(* present; a read (getattr) never does.                                     *)

Min(a, b) == IF a < b THEN a ELSE b

Handle(root, path) == [root |-> root, path |-> path]

FieldStep(field) == [k |-> "field", field |-> field, index |-> 0]
ItemStep(field, index) == [k |-> "item", field |-> field, index |-> index]
EntryStep(field, key) == [k |-> "entry", field |-> field, index |-> key]

Child(handle, step) == Handle(handle.root, Append(handle.path, step))

RECURSIVE Resolve(_, _, _)
Resolve(message, path, i) ==
    IF i > Len(path) THEN message
    ELSE Resolve(IF path[i].k = "field" THEN getattr(message, path[i].field)
                 ELSE message[path[i].field.name][path[i].index],
                 path, i + 1)

\* the message a handle refers to
Deref(heap, handle) == Resolve(heap[handle.root], handle.path, 1)

RECURSIVE Replace(_, _, _, _)
Replace(message, path, i, new) ==
    IF i > Len(path) THEN new
    ELSE LET name == path[i].field.name
         IN  IF path[i].k = "field"
             THEN [message EXCEPT
                      ![name] = <<Replace(getattr(message, path[i].field), path, i + 1, new)>>]
             ELSE [message EXCEPT
                      ![name] = [@ EXCEPT ![path[i].index] = Replace(@, path, i + 1, new)]]

\* the heap after the message behind the handle became `new`
Store(heap, handle, new) ==
    [heap EXCEPT ![handle.root] = Replace(@, handle.path, 1, new)]

\* setattr(message, field.name, value): a oneof member becomes the case of its group
setattr(message, field, value) ==
    IF field.containing_oneof = "" THEN [message EXCEPT ![field.name] = value]
    ELSE LET fields == DESCRIPTOR(field.containing_type).fields
             group == {fields[i].name : i \in {j \in 1..Len(fields) :
                          fields[j].containing_oneof = field.containing_oneof}}
         IN  [n \in DOMAIN message |->
                 IF n = field.name THEN <<value>>
                 ELSE IF n \in group THEN <<>>
                 ELSE message[n]]

\* attribute.append(value) on the repeated field of the message
container_append(message, field, value) ==
    [message EXCEPT ![field.name] = Append(@, value)]

\* attribute[key] of a message-valued map: the entry is created when missing
map_get_or_create(message, field, key) ==
    IF key \in DOMAIN message[field.name] THEN message
    ELSE [message EXCEPT
             ![field.name] =
                 (key :> DefaultMessage(fields_by_name(field.message_type, "value").message_type))
                 @@ @]

\* attribute[key] = value of a scalar map
map_set(message, field, key, value) ==
    [message EXCEPT ![field.name] = (key :> value) @@ @]

----------------------------------------------------------------------------
(* arrow_to_proto.py: the extractor.  The state threaded through it is the   *)
(* heap of messages and the exception raised so far ("" for none).           *)

is_custom_field(field_descriptor) ==
    /\ field_descriptor.type = "TYPE_MESSAGE"
    /\ field_descriptor.message_type \notin SPECIAL_TYPES
    /\ field_descriptor.message_type \notin NULLABLE_TYPES

\* sizes yielded by OffsetToSize(array.offsets)
OffsetToSize(offsets) == [i \in 1..(Len(offsets) - 1) |-> offsets[i + 1] - offsets[i]]

\* scalar.as_py(): None (<< >>) for a null scalar
convert_scalar(scalar) == scalar

\* the scalars of a column of this type are names: as_py() gives str or bytes
IsNameType(type) ==
    \/ type.id \in {"binary", "string"}
    \/ (type.id = "dictionary" /\ type.value_type.id \in {"binary", "string"})

\* convert_enum(scalar): values_by_name.get(scalar.as_py(), None) finds a str or
\* bytes key that names a value, and nothing for any other key
convert_enum(enum_descriptor, scalar, type) ==
    IF scalar # <<>> /\ IsNameType(type)
       /\ scalar[1] \in DOMAIN enum_descriptor.values_by_name
    THEN <<enum_descriptor.values_by_name[scalar[1]]>>
    ELSE <<>>

\* get_converter(field_descriptor)(scalar), for the enum, primitive and wrapper
\* kinds; the scalar is of the column's type
get_converter(field_descriptor, scalar, type) ==
    IF field_descriptor.type = "TYPE_ENUM"
    THEN convert_enum(EnumDescriptor(field_descriptor.enum_type), scalar, type)
    ELSE convert_scalar(scalar)

Raise(st, exception) == IF st.error = "" THEN [st EXCEPT !.error = exception] ELSE st

RECURSIVE Iterate(_, _)
\* list(messages): the handles an iterable of messages yields, and the heap after
\* the throw-away message of an OptionalNestedIterable was allocated
Iterate(messages, heap) ==
    CASE messages.k = "list" -> [handles |-> messages.handles, heap |-> heap]
      [] messages.k = "optional" ->
            LET parents == Iterate(messages.parents, heap)
                heap2 == Append(parents.heap, DefaultMessage(messages.field.message_type))
                fake_message == Handle(Len(heap2), <<>>)
                n == Min(Len(parents.handles), Len(messages.validity))
            IN  [handles |-> [i \in 1..n |->
                                 IF messages.validity[i]
                                 THEN Child(parents.handles[i], FieldStep(messages.field))
                                 ELSE fake_message],
                 heap |-> heap2]
      [] messages.k = "repeated" ->
            LET parents == Iterate(messages.parents, heap)
            IN  [handles |->
                    Flatten([i \in 1..Len(parents.handles) |->
                                [j \in 1..Len(getattr(Deref(parents.heap, parents.handles[i]),
                                                      messages.field)) |->
                                    Child(parents.handles[i], ItemStep(messages.field, j))]], 1),
                 heap |-> parents.heap]

ListOf(handles) == [k |-> "list", handles |-> handles]

OptionalNestedIterable(parents, field_descriptor, validity_mask) ==
    [k |-> "optional", parents |-> parents, field |-> field_descriptor,
     validity |-> validity_mask]

RepeatedNestedIterable(parents, field_descriptor) ==
    [k |-> "repeated", parents |-> parents, field |-> field_descriptor]

\* the handle yielded size[i] times for message i (AppendAssigner, MapKeyAssigner,
\* MapItemAssigner.__iter__)
RepeatBySize(handles, sizes) ==
    Flatten([i \in 1..Min(Len(handles), Len(sizes)) |->
                [j \in 1..sizes[i] |-> handles[i]]], 1)

\* mutant: "if value:" instead of "if value is not None:"
PlainAssigner_call_truthy(st, handle, field_descriptor, scalar, type) ==
    IF scalar = <<>> THEN st
    ELSE LET value == get_converter(field_descriptor, scalar, type)
             value_field == IF field_descriptor.message_type \in NULLABLE_TYPES
                            THEN fields_by_name(field_descriptor.message_type, "value")
                            ELSE field_descriptor
         IN  IF value = <<>> \/ value[1] = default_value(value_field) THEN st
             ELSE IF field_descriptor.message_type \in NULLABLE_TYPES
                  THEN LET wrapper == Child(handle, FieldStep(field_descriptor))
                       IN  [st EXCEPT !.heap = Store(@, wrapper,
                               setattr(Deref(st.heap, wrapper), value_field, value[1]))]
                  ELSE [st EXCEPT !.heap = Store(@, handle,
                           setattr(Deref(st.heap, handle), field_descriptor, value[1]))]

\* PlainAssigner.__call__(scalar)
PlainAssigner_call(st, handle, field_descriptor, scalar, type) ==
    IF scalar = <<>> THEN st
    ELSE LET value == get_converter(field_descriptor, scalar, type)
         IN  IF value = <<>> THEN st
             ELSE IF field_descriptor.message_type \in NULLABLE_TYPES
                  THEN LET wrapper == Child(handle, FieldStep(field_descriptor))
                       IN  [st EXCEPT !.heap = Store(@, wrapper,
                               setattr(Deref(st.heap, wrapper),
                                       fields_by_name(field_descriptor.message_type, "value"),
                                       value[1]))]
                  ELSE [st EXCEPT !.heap = Store(@, handle,
                           setattr(Deref(st.heap, handle), field_descriptor, value[1]))]

_TIMESTAMP_CONVERTER == [unit \in {"ns", "us", "ms", "s"} |->
    CASE unit = "ns" -> 1 [] unit = "us" -> 1000
      [] unit = "ms" -> 1000000 [] unit = "s" -> 1000000000]

\* timestamp.FromNanoseconds(scalar.value * _TIMESTAMP_CONVERTER[scalar.type.unit])
_timestamp_scalar_to_proto(value, type) ==
    [seconds |-> (value * _TIMESTAMP_CONVERTER[type.unit]) \div 1000000000,
     nanos |-> (value * _TIMESTAMP_CONVERTER[type.unit]) % 1000000000]

\* message.MergeFrom(other) for a message of singular primitive fields: the fields
\* set in `other` replace those of `message`
MergeFrom(message, other, T) ==
    [name \in DOMAIN message |->
        IF other[name] # default_value(fields_by_name(T, name)) THEN other[name]
        ELSE message[name]]

RECURSIVE special_merge_loop(_, _, _, _, _)
\* for message, value in zip(messages, array):
\*     if value.is_valid: getattr(message, name).MergeFrom(extractor(value))
special_merge_loop(st, handles, array, field_descriptor, i) ==
    IF i > Min(Len(handles), ArrayLen(array)) THEN st
    ELSE special_merge_loop(
             IF array.values[i] # <<>>
             THEN [st EXCEPT !.heap = Store(@, Child(handles[i], FieldStep(field_descriptor)),
                      MergeFrom(Deref(st.heap, Child(handles[i], FieldStep(field_descriptor))),
                                _timestamp_scalar_to_proto(array.values[i][1], array.type),
                                field_descriptor.message_type))]
             ELSE st,
             handles, array, field_descriptor, i + 1)

RECURSIVE plain_assign_loop(_, _, _, _, _)
\* for plain_assigner, value in zip(plain_assigner, array): if value.is_valid: ...
plain_assign_loop(st, handles, array, field_descriptor, i) ==
    IF st.error # "" \/ i > Min(Len(handles), ArrayLen(array)) THEN st
    ELSE plain_assign_loop(
             IF array.values[i] # <<>>
             THEN PlainAssigner_call(st, handles[i], field_descriptor, array.values[i],
                                     array.type)
             ELSE st,
             handles, array, field_descriptor, i + 1)

\* AppendAssigner.__call__(scalar) of _extract_repeated_primitive_assigner:
\* the container takes a value of its element kind only
AppendAssigner_call(st, handle, field_descriptor, scalar, type) ==
    LET value == get_converter(field_descriptor, scalar, type)
    IN  IF value = <<>> \/ field_descriptor.message_type \in NULLABLE_TYPES
        THEN Raise(st, "TypeError")
        ELSE [st EXCEPT !.heap = Store(@, handle,
                 container_append(Deref(st.heap, handle), field_descriptor, value[1]))]

RECURSIVE append_loop(_, _, _, _, _)
\* for each_assigner, value in zip(assigner, array.values): each_assigner(value)
append_loop(st, targets, values, field_descriptor, i) ==
    IF st.error # "" \/ i > Min(Len(targets), ArrayLen(values)) THEN st
    ELSE append_loop(AppendAssigner_call(st, targets[i], field_descriptor, values.values[i],
                                         values.type),
                     targets, values, field_descriptor, i + 1)

_extract_repeated_primitive_assigner(st, array, field_descriptor, messages) ==
    LET it == Iterate(messages, st.heap)
    IN  append_loop([st EXCEPT !.heap = it.heap],
                    RepeatBySize(it.handles, OffsetToSize(array.offsets)),
                    array.values, field_descriptor, 1)

RECURSIVE append_child_loop(_, _, _, _, _)
\* for each_assigner, value in zip(assigner, array.values): each_assigner(child)
append_child_loop(st, targets, values, field_descriptor, i) ==
    IF i > Min(Len(targets), ArrayLen(values)) THEN st
    ELSE append_child_loop(
             [st EXCEPT !.heap = Store(@, targets[i],
                 container_append(Deref(st.heap, targets[i]), field_descriptor,
                                  DefaultMessage(field_descriptor.message_type)))],
             targets, values, field_descriptor, i + 1)

RECURSIVE map_key_loop(_, _, _, _, _, _)
\* values.append(assigner(key)): MapKeyAssigner.__call__ returns attribute[key]
map_key_loop(st, targets, keys, field_descriptor, i, values) ==
    IF i > Min(Len(targets), ArrayLen(keys)) THEN [st |-> st, values |-> values]
    ELSE IF keys.values[i] = <<>> THEN [st |-> Raise(st, "TypeError"), values |-> values]
    ELSE map_key_loop(
             [st EXCEPT !.heap = Store(@, targets[i],
                 map_get_or_create(Deref(st.heap, targets[i]), field_descriptor,
                                   keys.values[i][1]))],
             targets, keys, field_descriptor, i + 1,
             Append(values, Child(targets[i], EntryStep(field_descriptor, keys.values[i][1]))))

\* _direct_assign(attribute, key, value)
_direct_assign(st, handle, field_descriptor, key, value) ==
    IF key = <<>> \/ value = <<>> THEN Raise(st, "TypeError")
    ELSE [st EXCEPT !.heap = Store(@, handle,
             map_set(Deref(st.heap, handle), field_descriptor, key[1], value[1]))]

\* _merge_assign(attribute, key, value); a wrapper's converter yields a scalar,
\* which MergeFrom refuses
_merge_assign(st, handle, field_descriptor, key, value) ==
    IF key = <<>> THEN Raise(st, "TypeError")
    ELSE LET created == [st EXCEPT !.heap = Store(@, handle,
                 map_get_or_create(Deref(st.heap, handle), field_descriptor, key[1]))]
         IN  IF value = <<>> THEN created ELSE Raise(created, "TypeError")

\* MapItemAssigner.__call__(key, value)
MapItemAssigner_call(st, handle, field_descriptor, key, value, types) ==
    LET value_descriptor == fields_by_name(field_descriptor.message_type, "value")
    IN  IF value_descriptor.type = "TYPE_MESSAGE"
        THEN _merge_assign(st, handle, field_descriptor, get_converter(
                 fields_by_name(field_descriptor.message_type, "key"), key, types.key_type),
                 IF value # <<>> THEN get_converter(value_descriptor, value, types.item_type)
                 ELSE <<>>)
        ELSE _direct_assign(st, handle, field_descriptor, get_converter(
                 fields_by_name(field_descriptor.message_type, "key"), key, types.key_type),
                 IF value # <<>> THEN get_converter(value_descriptor, value, types.item_type)
                 ELSE <<>>)

RECURSIVE map_item_loop(_, _, _, _, _, _)
\* for assigner, key, value in zip(MapItemAssigner(...), array.keys, values)
map_item_loop(st, targets, keys, items, field_descriptor, i) ==
    IF st.error # "" \/ i > Min(Len(targets), Min(ArrayLen(keys), ArrayLen(items))) THEN st
    ELSE map_item_loop(
             MapItemAssigner_call(st, targets[i], field_descriptor,
                                  keys.values[i], items.values[i],
                                  [key_type |-> keys.type, item_type |-> items.type]),
             targets, keys, items, field_descriptor, i + 1)

\* struct_type.get_field_index(name): 0 stands for -1
get_field_index(struct_type, name) ==
    IF \E i \in 1..Len(struct_type.fields) : struct_type.fields[i].name = name
    THEN CHOOSE i \in 1..Len(struct_type.fields) : struct_type.fields[i].name = name
    ELSE 0

RECURSIVE _extract_field(_, _, _, _), extract_fields_loop(_, _, _, _, _),
          _extract_struct_field(_, _, _, _), _extract_map_field(_, _, _, _),
          _extract_repeated_field(_, _, _, _), _extract_repeated_message(_, _, _, _),
          _extract_array_messages(_, _, _, _)

\* array.is_valid()
is_valid(array) ==
    IF array.kind = "struct" THEN array.valid
    ELSE [i \in 1..ArrayLen(array) |-> array.kind # "primitive" \/ array.values[i] # <<>>]

_extract_struct_field(st, array, field_descriptor, messages) ==
    _extract_array_messages(st, array, field_descriptor.message_type,
        OptionalNestedIterable(messages, field_descriptor, is_valid(array)))

_extract_map_field(st, array, field_descriptor, messages) ==
    LET value_type == fields_by_name(field_descriptor.message_type, "value")
        it == Iterate(messages, st.heap)
        targets == RepeatBySize(it.handles, OffsetToSize(array.offsets))
        st1 == [st EXCEPT !.heap = it.heap]
    IN  IF is_custom_field(value_type)
        THEN LET keyed == map_key_loop(st1, targets, array.keys, field_descriptor, 1, <<>>)
             IN  _extract_array_messages(keyed.st, array.items, value_type.message_type,
                                         ListOf(keyed.values))
        ELSE map_item_loop(st1, targets, array.keys, array.items, field_descriptor, 1)

_extract_repeated_message(st, array, field_descriptor, messages) ==
    LET it == Iterate(messages, st.heap)
        appended == append_child_loop([st EXCEPT !.heap = it.heap],
                        RepeatBySize(it.handles, OffsetToSize(array.offsets)),
                        array.values, field_descriptor, 1)
    IN  _extract_array_messages(appended, array.values, field_descriptor.message_type,
                                RepeatedNestedIterable(messages, field_descriptor))

_extract_repeated_field(st, array, field_descriptor, messages) ==
    IF is_custom_field(field_descriptor)
    THEN IF DESCRIPTOR(field_descriptor.message_type).map_entry
         THEN _extract_map_field(st, array, field_descriptor, messages)
         ELSE _extract_repeated_message(st, array, field_descriptor, messages)
    ELSE _extract_repeated_primitive_assigner(st, array, field_descriptor, messages)

_extract_field(st, array, field_descriptor, messages) ==
    IF st.error # "" THEN st
    ELSE IF field_descriptor.label = "LABEL_REPEATED"
         THEN _extract_repeated_field(st, array, field_descriptor, messages)
    ELSE IF field_descriptor.message_type \in SPECIAL_TYPES
         THEN LET it == Iterate(messages, st.heap)
              IN  special_merge_loop([st EXCEPT !.heap = it.heap], it.handles, array,
                                     field_descriptor, 1)
    ELSE IF field_descriptor.type = "TYPE_MESSAGE"
            /\ field_descriptor.message_type \notin NULLABLE_TYPES
         THEN _extract_struct_field(st, array, field_descriptor, messages)
    ELSE LET it == Iterate(messages, st.heap)
         IN  plain_assign_loop([st EXCEPT !.heap = it.heap], it.handles, array,
                               field_descriptor, 1)

\* mutant: the child is taken by name without asking whether there is one
extract_fields_loop_strict(st, array, fields, messages, i) ==
    IF i > Len(fields) THEN st
    ELSE extract_fields_loop(
             IF get_field_index(array.type, fields[i].name) # 0
             THEN _extract_field(st, array.children[get_field_index(array.type, fields[i].name)],
                                 fields[i], messages)
             ELSE Raise(st, "KeyError"),
             array, fields, messages, i + 1)

\* for field_descriptor in message_descriptor.fields: extract the child of its name
extract_fields_loop(st, array, fields, messages, i) ==
    IF i > Len(fields) THEN st
    ELSE LET index == get_field_index(array.type, fields[i].name)
         IN  extract_fields_loop(
                 IF index # 0
                 THEN _extract_field(st, array.children[index], fields[i], messages)
                 ELSE st,
                 array, fields, messages, i + 1)

\* assert pa.types.is_struct(array.type), then the loop over the fields
_extract_array_messages(st, array, message_descriptor, messages) ==
    IF array.type.id # "struct" THEN Raise(st, "AssertionError")
    ELSE extract_fields_loop(st, array, DESCRIPTOR(message_descriptor).fields, messages, 1)

\* a record batch is looked up by column name like a struct array
_extract_record_batch_messages(st, record_batch, message_descriptor, messages) ==
    extract_fields_loop(st, record_batch, DESCRIPTOR(message_descriptor).fields, messages, 1)

\* [messages |-> the list returned, error |-> the exception surfaced instead]
Returned(st, num_rows) ==
    IF st.error # "" THEN [messages |-> <<>>, error |-> st.error]
    ELSE [messages |-> SubSeq(st.heap, 1, num_rows), error |-> ""]

\* messages = [message_type() for _ in range(record_batch.num_rows)], then extracted
record_batch_to_messages(batch, T) ==
    Returned(_extract_record_batch_messages(
                 [heap |-> [i \in 1..ArrayLen(batch) |-> DefaultMessage(T)], error |-> ""],
                 batch, T, ListOf([i \in 1..ArrayLen(batch) |-> Handle(i, <<>>)])),
             ArrayLen(batch))

RECURSIVE table_to_messages_loop(_, _, _, _), messages_extend(_, _, _, _, _)

\* messages.extend(r), unless the extraction of the batch raised
messages_extend(r, batches, T, i, messages) ==
    IF r.error # "" THEN r
    ELSE table_to_messages_loop(batches, T, i + 1, messages \o r.messages)

table_to_messages_loop(batches, T, i, messages) ==
    IF i > Len(batches) THEN [messages |-> messages, error |-> ""]
    ELSE messages_extend(record_batch_to_messages(batches[i], T), batches, T, i, messages)

\* for batch in table.to_reader(): messages.extend(record_batch_to_messages(batch, T))
table_to_messages(table_, T) == table_to_messages_loop(table_, T, 1, <<>>)

----------------------------------------------------------------------------
(* The conversions as a state machine *)

\* ProtarrowConfig(): the enum representation and the unit of the Timestamp columns
DefaultConfig == [enum_type |-> pa("binary"), timestamp_unit |-> "ns"]

\* the configurations a message type is encoded with
Configs(T) ==
    IF T = "Stamped"
    THEN {[DefaultConfig EXCEPT !.timestamp_unit = unit] : unit \in {"ns", "ms"}}
    ELSE IF T = "EnumMsg"
    THEN {[DefaultConfig EXCEPT !.enum_type = type] :
             type \in {pa("int32"), pa("binary"), pa("string"),
                       pa_dictionary(pa("int32"), pa("binary")),
                       pa_dictionary(pa("int32"), pa("string"))}}
    ELSE {DefaultConfig}

HasMap(T) == \E i \in 1..Len(DESCRIPTOR(T).fields) : is_map_field(DESCRIPTOR(T).fields[i])

Init ==
    /\ message_type \in MessageTypes
    /\ key_order \in IF HasMap(message_type) THEN KeyOrders ELSE {<<"a", "b">>}
    /\ config \in Configs(message_type)
    /\ source_messages \in SeqsUpTo(Messages(message_type), MaxRows)
    /\ table = <<>>
    /\ messages_back = <<>>
    /\ error = ""
    /\ pc = "start"

\* table = messages_to_table(source_messages, message_type)
MessagesToTable ==
    /\ pc = "start"
    /\ table' = messages_to_table(source_messages, message_type)
    /\ pc' = "encoded"
    /\ UNCHANGED <<message_type, key_order, config, source_messages, messages_back, error>>

\* messages_back = table_to_messages(table, message_type)
TableToMessages ==
    /\ pc = "encoded"
    /\ \E r \in {table_to_messages(table, message_type)} :
           /\ messages_back' = r.messages
           /\ error' = r.error
    /\ pc' = "decoded"
    /\ UNCHANGED <<message_type, key_order, config, source_messages, table>>

Next == MessagesToTable \/ TableToMessages

Spec == Init /\ [][Next]_vars

----------------------------------------------------------------------------
(* Decoding record batches that were not built by messages_to_table: any map  *)
(* column of the right type, a slice of a longer column included.             *)

\* decoded from one list column, a slice of a longer column included
SlicedListTypes == {"RepeatedInt", "RepeatedMsg"}

\* decoded from one struct column whose slots are null or valid whatever the
\* children store
StructTypes == {"Holder", "Outer"}

\* decoded from record batches that lack columns and hold columns of other names
GapTypes == {"Test_int32", "Nested"}

\* decoded from map columns of primitive and of sub-message values
MapTypes == {"IntMap", "MsgMap", "BagMap"}

\* decoded from unsliced columns of names, of which "BLUE" names no value
EnumTypes == {"EnumMsg", "RepeatedEnum", "EnumMap"}

EnumNames == {"GREEN", "BLUE"}

\* the message types whose record batches are decoded on their own
DecodeTypes ==
    MapTypes \cup SlicedListTypes \cup StructTypes \cup GapTypes
        \cup EnumTypes

\* the non-decreasing offsets of n slots into a child of the given length
Offsets(n, length) ==
    {offsets \in [1..(n + 1) -> 0..length] :
        \A i \in 1..n : offsets[i] <= offsets[i + 1]}

RECURSIVE FieldArrays(_, _, _), ElementArrays(_, _), ChildArrays(_, _, _)

\* the arrays of n non-null elements of the field's kind
ElementArrays(field, n) ==
    IF is_custom_field(field)
    THEN LET fields == DESCRIPTOR(field.message_type).fields
         IN  {[kind |-> "struct",
               type |-> pa_struct([i \in 1..Len(fields) |->
                           pa_field(fields[i].name, children[i].type,
                                    _proto_field_nullable(fields[i], TRUE))]),
               children |-> children,
               valid |-> [i \in 1..n |-> TRUE]] :
                  children \in ChildArrays(fields, 1, n)}
    ELSE IF field.type = "TYPE_ENUM"
    THEN {pa_array(values, DefaultConfig.enum_type) :
              values \in [1..n -> {<<v>> : v \in EnumNames}]}
    ELSE {pa_array(values, _PROTO_PRIMITIVE_TYPE_TO_PYARROW[field.type]) :
              values \in [1..n -> {<<v>> : v \in IF field.name = "key" THEN KeyValues
                                                 ELSE PrimitiveValues(field.type)}]}

\* the children of a struct array of n slots, one per field from the i-th on
ChildArrays(fields, i, n) ==
    IF i > Len(fields) THEN {<<>>}
    ELSE {<<first>> \o rest : first \in FieldArrays(fields[i], n, FALSE),
                              rest \in ChildArrays(fields, i + 1, n)}

\* the arrays of n slots for the field; a sliced list or map array keeps the whole
\* child and the offsets of its own slots only
FieldArrays(field, n, sliced) ==
    IF is_map_field(field)
    THEN UNION {{MapArray_from_arrays(offsets, keys, items) :
                    offsets \in {o \in Offsets(n, length) :
                                    sliced \/ (o[1] = 0 /\ o[n + 1] = length)},
                    keys \in ElementArrays(fields_by_name(field.message_type, "key"), length),
                    items \in ElementArrays(fields_by_name(field.message_type, "value"), length)} :
                length \in 0..MaxLen}
    ELSE IF field.label = "LABEL_REPEATED"
    THEN UNION {{ListArray_from_arrays(offsets, values,
                     pa_list_(pa_field("item", values.type, field.type = "TYPE_MESSAGE"))) :
                    offsets \in {o \in Offsets(n, length) :
                                    sliced \/ (o[1] = 0 /\ o[n + 1] = length)},
                    values \in ElementArrays(field, length)} :
                length \in 0..MaxLen}
    ELSE ElementArrays(field, n)

\* the record batches of message type T with a single column and up to MaxRows rows
RecordBatches(T) ==
    LET field == DESCRIPTOR(T).fields[1]
    IN  UNION {{StructArray_from_arrays(<<column>>,
                    <<pa_field(field.name, column.type, _proto_field_nullable(field, TRUE))>>,
                    <<>>) :
                    column \in FieldArrays(field, n, T \notin EnumTypes)} :
                n \in 0..MaxRows}

\* a struct array, or a record batch, of the named columns
StructOfColumns(columns, valid) ==
    [kind |-> "struct",
     type |-> pa_struct([i \in 1..Len(columns) |->
                 pa_field(columns[i].name, columns[i].array.type, TRUE)]),
     children |-> [i \in 1..Len(columns) |-> columns[i].array],
     valid |-> valid]

\* with gaps, the columns as they are or behind a column no field is named after
WithUnknown(columns, n, gaps) ==
    IF gaps
    THEN {columns,
          <<[name |-> "unknown",
             array |-> pa_array([i \in 1..n |-> <<1>>], pa("int32"))]>> \o columns}
    ELSE {columns}

RECURSIVE LooseArrays(_, _, _), LooseChildren(_, _, _, _)

\* the arrays of n slots for the field: a struct slot is null or valid whatever its
\* children store, a primitive or wrapper element is null or a value
LooseArrays(field, n, gaps) ==
    IF field.label = "LABEL_REPEATED" THEN FieldArrays(field, n, FALSE)
    ELSE IF is_custom_field(field)
    THEN UNION {UNION {{StructOfColumns(named, valid) : valid \in [1..n -> BOOLEAN]} :
                          named \in WithUnknown(columns, n, gaps)} :
                   columns \in LooseChildren(DESCRIPTOR(field.message_type).fields, 1, n, gaps)}
    ELSE IF field.type = "TYPE_MESSAGE"
    THEN {pa_array(values, _PROTO_DESCRIPTOR_TO_PYARROW[field.message_type]) :
              values \in [1..n -> {<<>>} \cup
                  {<<v>> : v \in PrimitiveValues(
                                fields_by_name(field.message_type, "value").type)}]}
    ELSE {pa_array(values, _PROTO_PRIMITIVE_TYPE_TO_PYARROW[field.type]) :
              values \in [1..n -> {<<>>} \cup {<<v>> : v \in PrimitiveValues(field.type)}]}

\* the named columns of the fields from the i-th on; with gaps a field may have none
LooseChildren(fields, i, n, gaps) ==
    IF i > Len(fields) THEN {<<>>}
    ELSE {first \o rest :
              first \in {<<[name |-> fields[i].name, array |-> array]>> :
                            array \in LooseArrays(fields[i], n, gaps)}
                        \cup (IF gaps THEN {<<>>} ELSE {}),
              rest \in LooseChildren(fields, i + 1, n, gaps)}

\* the record batches of message type T with up to MaxRows rows
LooseRecordBatches(T, gaps) ==
    UNION {UNION {{StructOfColumns(named, [i \in 1..n |-> TRUE]) :
                      named \in WithUnknown(columns, n, gaps)} :
                     columns \in LooseChildren(DESCRIPTOR(T).fields, 1, n, gaps)} :
              n \in 0..MaxRows}

\* the record batches whose only column is named after the first field of T and
\* is of a type the field does not derive: int64 values that fit an int32 field,
\* int32 values for a sub-message field
MismatchBatches(T) ==
    IF T \in GapTypes
    THEN UNION {{StructOfColumns(<<[name |-> DESCRIPTOR(T).fields[1].name,
                                    array |-> pa_array(values,
                                        IF T = "Nested" THEN pa("int32") ELSE pa("int64"))]>>,
                                 [i \in 1..n |-> TRUE]) :
                    values \in [1..n -> {<<v>> : v \in PrimitiveValues("TYPE_INT32")}]} :
                n \in 1..MaxRows}
    ELSE {}

DecodeBatches(T) ==
    (IF T \in StructTypes \cup GapTypes THEN LooseRecordBatches(T, T \in GapTypes)
     ELSE RecordBatches(T)) \cup MismatchBatches(T)

InitDecode ==
    /\ message_type \in DecodeTypes
    /\ key_order = <<"a", "b">>
    /\ config = DefaultConfig
    /\ source_messages = <<>>
    /\ table \in {<<batch>> : batch \in DecodeBatches(message_type)}
    /\ messages_back = <<>>
    /\ error = ""
    /\ pc = "encoded"

NextDecode == TableToMessages

SpecDecode == InitDecode /\ [][NextDecode]_vars

----------------------------------------------------------------------------
(* Properties of messages_to_table followed by table_to_messages (Spec) *)

record_batch == table[1]

Fields == DESCRIPTOR(message_type).fields

\* the column of the record batch named after the field
Column(batch, field) == batch.children[get_field_index(batch.type, field.name)]

SchemaField(batch, field) == batch.type.fields[get_field_index(batch.type, field.name)]

\* C1: with the default configuration, table_to_messages(messages_to_table(M, T), T)
\* is a list equal to M, element by element, for every message type T and every
\* sequence M of T messages.
C1_RoundTrip ==
    (pc = "decoded" /\ config = DefaultConfig) =>
        (error = "" /\ messages_back = source_messages)

RECURSIVE TypeOfField(_), TypeOfElement(_)

\* the column type the descriptor prescribes for one element of the field's kind;
\* struct members are listed by name and type
TypeOfElement(field) ==
    IF field.type = "TYPE_ENUM" THEN config.enum_type
    ELSE IF field.type # "TYPE_MESSAGE" THEN _PROTO_PRIMITIVE_TYPE_TO_PYARROW[field.type]
    ELSE IF field.message_type \in DOMAIN _PROTO_DESCRIPTOR_TO_PYARROW
         THEN _PROTO_DESCRIPTOR_TO_PYARROW[field.message_type]
    ELSE LET fields == DESCRIPTOR(field.message_type).fields
         IN  [id |-> "struct",
              fields |-> [i \in 1..Len(fields) |->
                             [name |-> fields[i].name, type |-> TypeOfField(fields[i])]]]

\* the column type the descriptor prescribes for the field
TypeOfField(field) ==
    IF is_map_field(field)
    THEN [id |-> "map",
          key_type |-> TypeOfElement(fields_by_name(field.message_type, "key")),
          item_type |-> TypeOfElement(fields_by_name(field.message_type, "value"))]
    ELSE IF field.label = "LABEL_REPEATED"
         THEN [id |-> "list", item |-> TypeOfElement(field)]
    ELSE TypeOfElement(field)

RECURSIVE TypeShape(_)
\* an Arrow type without the nullable marks of its members (C3 and C4 are about
\* the marks)
TypeShape(type) ==
    CASE type.id = "struct" ->
            [id |-> "struct",
             fields |-> [i \in 1..Len(type.fields) |->
                            [name |-> type.fields[i].name,
                             type |-> TypeShape(type.fields[i].type)]]]
      [] type.id = "list" -> [id |-> "list", item |-> TypeShape(type.item.type)]
      [] type.id = "map" ->
            [id |-> "map", key_type |-> TypeShape(type.key_type),
             item_type |-> TypeShape(type.item_type)]
      [] OTHER -> type

\* C2: messages_to_table([], T) has 0 rows and still one column per field of
\* T.DESCRIPTOR, in order, each of the type the descriptor prescribes, and
\* table_to_messages on that table returns the empty list.
C2_EmptyInput ==
    (pc # "start" /\ source_messages = <<>>) =>
        /\ Len(table) = 1
        /\ ArrayLen(record_batch) = 0
        /\ Len(record_batch.type.fields) = Len(Fields)
        /\ Len(record_batch.children) = Len(Fields)
        /\ \A i \in 1..Len(Fields) :
              /\ record_batch.type.fields[i].name = Fields[i].name
              /\ TypeShape(record_batch.type.fields[i].type) = TypeOfField(Fields[i])
              /\ TypeShape(record_batch.children[i].type) = TypeOfField(Fields[i])
              /\ ArrayLen(record_batch.children[i]) = 0
        /\ (pc = "decoded" => (error = "" /\ messages_back = <<>>))

C2_Witness ==
    pc = "decoded" /\ source_messages = <<>> /\ message_type = "MsgMap"

\* the column types test_wrapped_type_nullable and test_native_type_not_nullable expect
ExpectedScalarType ==
    <<pa("float64"), pa("float32"), pa("int32"), pa("int64"), pa("uint32"),
      pa("uint64"), pa("bool"), pa("string"), pa("binary")>>

\* C3: in the schema of messages_to_table, every singular wrapper field is a nullable
\* column of the unwrapped scalar type, and every singular primitive field is a
\* non-nullable column of its primitive mapping.
C3_ScalarNullability ==
    (pc # "start" /\ message_type \in ScalarMessages) =>
        LET i == ScalarIndex(message_type)
            native == SchemaField(record_batch, fields_by_name(message_type, ShortName[i] \o "_value"))
            wrapped == SchemaField(record_batch, fields_by_name(message_type, "wrapped_" \o ShortName[i]))
        IN  /\ native.type = ExpectedScalarType[i]
            /\ native.nullable = FALSE
            /\ wrapped.type = ExpectedScalarType[i]
            /\ wrapped.nullable = TRUE

C3_Witness ==
    pc = "encoded" /\ message_type = "Test_bytes" /\ Len(source_messages) = 2

\* C4: in the schema of the record batch of messages_to_record_batch, every
\* top-level repeated field is marked non-nullable.
C4_RepeatedNotNullable ==
    pc # "start" =>
        \A i \in 1..Len(Fields) :
            Fields[i].label = "LABEL_REPEATED"
            => SchemaField(record_batch, Fields[i]).nullable = FALSE

Monotone(offsets) == \A i \in 1..(Len(offsets) - 1) : offsets[i] <= offsets[i + 1]

RECURSIVE OffsetsWellFormed(_, _)
\* every list and map array below `array`, which has n slots, has well-formed offsets
OffsetsWellFormed(array, n) ==
    CASE array.kind = "primitive" -> TRUE
      [] array.kind = "struct" ->
            \A i \in 1..Len(array.children) : OffsetsWellFormed(array.children[i], n)
      [] array.kind = "list" ->
            /\ Len(array.offsets) = n + 1
            /\ array.offsets[1] = 0
            /\ Monotone(array.offsets)
            /\ array.offsets[n + 1] = ArrayLen(array.values)
            /\ OffsetsWellFormed(array.values, ArrayLen(array.values))
      [] array.kind = "map" ->
            /\ Len(array.offsets) = n + 1
            /\ array.offsets[1] = 0
            /\ Monotone(array.offsets)
            /\ array.offsets[n + 1] = ArrayLen(array.keys)
            /\ array.offsets[n + 1] = ArrayLen(array.items)
            /\ OffsetsWellFormed(array.keys, ArrayLen(array.keys))
            /\ OffsetsWellFormed(array.items, ArrayLen(array.items))

\* C5: every list or map column built from n parent slots, at any depth, has n+1
\* offsets, offsets[0] = 0, offsets non-decreasing, and the last offset equal to the
\* length of the flattened child.
C5_OffsetsWellFormed ==
    pc # "start" => OffsetsWellFormed(record_batch, Len(source_messages))

\* a list under an unset sub-message next to a list of two elements
C5_Witness ==
    /\ pc = "encoded" /\ message_type = "Holder" /\ Len(source_messages) = 2
    /\ ~HasField(source_messages[1], "bag")
    /\ Column(Column(record_batch, Fields[1]), fields_by_name("Bag", "xs")).offsets = <<0, 0, 2>>

RECURSIVE StructLengthsAgree(_)
\* below `array`, every child of a struct array is as long as the struct array
StructLengthsAgree(array) ==
    CASE array.kind = "primitive" -> TRUE
      [] array.kind = "struct" ->
            \A i \in 1..Len(array.children) :
                /\ ArrayLen(array.children[i]) = ArrayLen(array)
                /\ StructLengthsAgree(array.children[i])
      [] array.kind = "list" -> StructLengthsAgree(array.values)
      [] array.kind = "map" ->
            StructLengthsAgree(array.keys) /\ StructLengthsAgree(array.items)

\* C6: for a non-empty input the record batch has as many rows as there are input
\* messages, and every child array of a struct column is as long as the struct
\* column (one slot per parent, not one per valid row).
C6_LengthPreservation ==
    (pc # "start" /\ source_messages # <<>>) =>
        /\ ArrayLen(record_batch) = Len(source_messages)
        /\ StructLengthsAgree(record_batch)

\* a struct column with one valid and one null slot, and so with two child slots
C6_Witness ==
    /\ pc = "encoded" /\ message_type = "Nested" /\ Len(source_messages) = 2
    /\ Column(record_batch, Fields[1]).valid = <<FALSE, TRUE>>
    /\ ArrayLen(Column(Column(record_batch, Fields[1]), fields_by_name("Mid", "inner"))) = 2

RECURSIVE ValidityCorrect(_, _, _)
\* `array` is the struct array of message type T built from `parents`, where
\* parents[i] is <<m>> when the message of slot i and all its enclosing
\* sub-messages are present, and << >> otherwise
ValidityCorrect(array, T, parents) ==
    \A k \in 1..Len(DESCRIPTOR(T).fields) :
        LET field == DESCRIPTOR(T).fields[k]
            column == Column(array, field)
        IN  (field.label # "LABEL_REPEATED" /\ is_custom_field(field)) =>
                /\ column.kind = "struct"
                /\ Len(column.valid) = Len(parents)
                /\ \A i \in 1..Len(parents) :
                      column.valid[i] <=> (parents[i] # <<>> /\ HasField(parents[i][1], field.name))
                /\ ValidityCorrect(column, field.message_type,
                       [i \in 1..Len(parents) |->
                           IF parents[i] = <<>> THEN <<>> ELSE parents[i][1][field.name]])

\* C7: for every singular non-special sub-message column, at any depth, the validity
\* bit of row i is set iff the source message of row i has the field present and
\* every enclosing sub-message of that row is present.
C7_ValidityCorrect ==
    pc # "start" =>
        ValidityCorrect(record_batch, message_type,
                        [i \in 1..Len(source_messages) |-> <<source_messages[i]>>])

\* rows with the outer sub-message unset, and with it present around an unset and
\* around a present inner sub-message
C7_Witness ==
    /\ pc = "encoded" /\ message_type = "Nested" /\ Len(source_messages) = 2
    /\ source_messages[1]["nested"] = <<[inner |-> <<>>]>>
    /\ source_messages[2]["nested"] = <<[inner |-> <<[x |-> 0]>>]>>

WrappedField == fields_by_name(message_type, "wrapped_" \o ShortName[ScalarIndex(message_type)])

\* C8: the encoded element of a singular wrapper field is valid, with the wrapper's
\* .value, iff the message has the field present (also for the default value) and
\* null otherwise; decoding a null element leaves the field unset, and decoding a
\* valid element makes the field present with .value equal to the element.
C8_WrapperPresence ==
    (pc # "start" /\ message_type \in ScalarMessages) =>
        LET name == WrappedField.name
            column == Column(record_batch, WrappedField)
        IN  /\ Len(column.values) = Len(source_messages)
            /\ \A i \in 1..Len(source_messages) :
                  column.values[i] =
                      IF HasField(source_messages[i], name)
                      THEN <<source_messages[i][name][1]["value"]>>
                      ELSE <<>>
            /\ pc = "decoded" =>
                  /\ error = ""
                  /\ Len(messages_back) = Len(source_messages)
                  /\ \A i \in 1..Len(messages_back) :
                        IF column.values[i] = <<>>
                        THEN ~HasField(messages_back[i], name)
                        ELSE /\ HasField(messages_back[i], name)
                             /\ messages_back[i][name][1]["value"] = column.values[i][1]

\* one row with the wrapper unset, one with it present around the default value
C8_Witness ==
    /\ pc = "decoded" /\ message_type = "Test_int32" /\ Len(source_messages) = 2
    /\ source_messages[1]["wrapped_int32"] = <<>>
    /\ source_messages[2]["wrapped_int32"] = <<[value |-> 0]>>
    /\ HasField(messages_back[2], "wrapped_int32")

----------------------------------------------------------------------------
(* Properties of table_to_messages on any map column (SpecDecode) *)

MapField == Fields[1]

MapColumn == Column(record_batch, MapField)

MapValueField == fields_by_name(MapField.message_type, "value")

\* the entry rows of parent i, counted from 1: offsets[i] .. offsets[i+1]-1 from 0
EntryRows(array, i) == (array.offsets[i] + 1)..array.offsets[i + 1]

\* the message of type T that row j of the struct array describes on its own
RowMessage(array, T, j) ==
    LET fields == DESCRIPTOR(T).fields
    IN  [name \in {fields[k].name : k \in 1..Len(fields)} |->
            LET field == fields_by_name(T, name)
                column == Column(array, field)
            IN  IF field.label = "LABEL_REPEATED"
                THEN [k \in 1..(column.offsets[j + 1] - column.offsets[j]) |->
                         column.values.values[column.offsets[j] + k][1]]
                ELSE column.values[j][1]]

\* the map value that entry row j describes on its own
EntryValue(array, j) ==
    IF is_custom_field(MapValueField)
    THEN RowMessage(array.items, MapValueField.message_type, j)
    ELSE array.items.values[j][1]

DistinctKeys(array) ==
    \A i \in 1..ArrayLen(array) :
        \A j, k \in EntryRows(array, i) :
            j # k => array.keys.values[j] # array.keys.values[k]

\* C9: decoding a map column whose values are non-special sub-messages and whose
\* keys are distinct within each parent, for every entry row j of parent i the
\* sub-message under key keys[j] in parent i's map is the one decoded from values[j].
C9_MapValuePairing ==
    (pc = "decoded" /\ message_type \in MapTypes /\ is_custom_field(MapValueField)
                    /\ DistinctKeys(MapColumn)) =>
        /\ error = ""
        /\ Len(messages_back) = ArrayLen(MapColumn)
        /\ \A i \in 1..ArrayLen(MapColumn) :
              \A j \in EntryRows(MapColumn, i) :
                  LET key == MapColumn.keys.values[j][1]
                      map == messages_back[i][MapField.name]
                  IN  /\ key \in DOMAIN map
                      /\ map[key] = EntryValue(MapColumn, j)

\* C10: when the entry range of one parent holds the same key more than once, the
\* decoded map has one entry for the key and its value is the one decoded from the
\* last such entry alone, for scalar values and for sub-message values (nothing of
\* an earlier entry survives).  Stated for the columns whose offsets start at 0.
C10_DuplicateKeyLaterWins ==
    (pc = "decoded" /\ message_type \in MapTypes /\ MapColumn.offsets[1] = 0) =>
        /\ error = ""
        /\ Len(messages_back) = ArrayLen(MapColumn)
        /\ \A i \in 1..ArrayLen(MapColumn) :
              \A j \in EntryRows(MapColumn, i) :
                  LET same == {k \in EntryRows(MapColumn, i) :
                                  MapColumn.keys.values[k] = MapColumn.keys.values[j]}
                      key == MapColumn.keys.values[j][1]
                      map == messages_back[i][MapField.name]
                  IN  (Cardinality(same) > 1 /\ \A k \in same : k <= j) =>
                          /\ key \in DOMAIN map
                          /\ map[key] = EntryValue(MapColumn, j)

\* a primitive column for a field that derives another primitive type, a list or
\* a struct
TypeMismatch(column, field) ==
    /\ column.kind = "primitive"
    /\ \/ field.label = "LABEL_REPEATED"
       \/ is_custom_field(field)
       \/ column.type # field_pa_type(field)

MismatchedColumn ==
    \E i \in 1..Len(Fields) :
        /\ get_field_index(record_batch.type, Fields[i].name) # 0
        /\ TypeMismatch(Column(record_batch, Fields[i]), Fields[i])

RECURSIVE KnownColumns(_, _), MissingAtDefault(_, _, _)

\* the struct array, or record batch, of message type T without the columns that no
\* field is named after, at every depth of singular sub-message columns
KnownColumns(array, T) ==
    LET fields == DESCRIPTOR(T).fields
        names == {fields[k].name : k \in 1..Len(fields)}
        kept == SelectSeq([i \in 1..Len(array.children) |-> i],
                          LAMBDA i : array.type.fields[i].name \in names)
        Known(i) ==
            LET field == fields_by_name(T, array.type.fields[i].name)
            IN  IF field.label # "LABEL_REPEATED" /\ is_custom_field(field)
                   /\ array.children[i].kind = "struct"
                THEN KnownColumns(array.children[i], field.message_type)
                ELSE array.children[i]
    IN  [kind |-> "struct",
         type |-> pa_struct([j \in 1..Len(kept) |->
                     pa_field(array.type.fields[kept[j]].name, Known(kept[j]).type,
                              array.type.fields[kept[j]].nullable)]),
         children |-> [j \in 1..Len(kept) |-> Known(kept[j])],
         valid |-> array.valid]

\* holders[i] is <<m>>, the decoded message of type T of slot i, or << >> when there
\* is none; every field of T without a column in `array` is unset in every m
MissingAtDefault(array, T, holders) ==
    \A k \in 1..Len(DESCRIPTOR(T).fields) :
        LET field == DESCRIPTOR(T).fields[k]
        IN  IF get_field_index(array.type, field.name) = 0
            THEN \A i \in 1..Len(holders) :
                     holders[i] # <<>> => holders[i][1][field.name] = DefaultField(field)
            ELSE (field.label # "LABEL_REPEATED" /\ is_custom_field(field)) =>
                     MissingAtDefault(Column(array, field), field.message_type,
                         [i \in 1..Len(holders) |->
                             IF holders[i] = <<>> THEN <<>> ELSE holders[i][1][field.name]])

\* C11: record_batch_to_messages decodes a record batch exactly as it decodes the
\* batch without the columns, top-level or struct children, whose name matches no
\* field of the descriptor, without an error when the columns it does read are of
\* the fields' types, and every field that has no column of its name is left unset
\* (at its default) in every decoded message.
C11_UnknownAndMissingColumns ==
    pc = "decoded" =>
        \E r \in {record_batch_to_messages(KnownColumns(record_batch, message_type),
                                           message_type)} :
            /\ messages_back = r.messages
            /\ error = r.error
            /\ (message_type \in GapTypes /\ ~MismatchedColumn) => error = ""
            /\ error = "" =>
                  MissingAtDefault(record_batch, message_type,
                      [i \in 1..Len(messages_back) |-> <<messages_back[i]>>])

\* two rows behind an unknown column, with the wrapper column missing and a struct
\* column that holds an unknown child and lacks the child of its only field
C11_Witness ==
    /\ pc = "decoded" /\ error = "" /\ Len(messages_back) = 2
    /\ KnownColumns(record_batch, message_type) # record_batch
    /\ \/ /\ message_type = "Test_int32"
          /\ get_field_index(record_batch.type, "wrapped_int32") = 0
          /\ messages_back[2]["int32_value"] = 1
       \/ /\ message_type = "Nested"
          /\ get_field_index(record_batch.type, "nested") # 0
          /\ get_field_index(Column(record_batch, Fields[1]).type, "unknown") # 0
          /\ get_field_index(Column(record_batch, Fields[1]).type, "inner") = 0

----------------------------------------------------------------------------
(* Timestamp columns, checked under Spec *)

TotalNanos(ts) == ts["seconds"] * 1000000000 + ts["nanos"]

\* C12: the column of a Timestamp field is a timestamp column of config.timestamp_unit
\* whose valid elements are the total nanoseconds floor-divided by the factor of that
\* unit, and it decodes to that element times the factor, split into seconds and
\* nanos: with "ms", Timestamp(1, 123456789) encodes to 1123 and decodes to
\* seconds = 1, nanos = 123000000.
C12_TimestampUnit ==
    (pc # "start" /\ message_type = "Stamped") =>
        LET column == Column(record_batch, Fields[1])
            factor == _TIMESTAMP_CONVERTER[config.timestamp_unit]
        IN  /\ column.type.id = "timestamp"
            /\ column.type.unit = config.timestamp_unit
            /\ \A i \in 1..Len(source_messages) :
                  /\ column.values[i] =
                        IF HasField(source_messages[i], "ts")
                        THEN <<TotalNanos(source_messages[i]["ts"][1]) \div factor>>
                        ELSE <<>>
                  /\ (pc = "decoded" /\ HasField(source_messages[i], "ts")) =>
                        /\ error = ""
                        /\ TotalNanos(messages_back[i]["ts"][1])
                             = (TotalNanos(source_messages[i]["ts"][1]) \div factor) * factor

----------------------------------------------------------------------------
(* Enum columns *)

EnumField == Fields[1]

Values_by_name == EnumDescriptor(EnumField.enum_type).values_by_name

\* the numbers of the elements lo+1..hi of the column that name a value
RECURSIVE NamedNumbers(_, _, _)
NamedNumbers(values, lo, hi) ==
    IF lo >= hi THEN <<>>
    ELSE (IF values[lo + 1][1] \in DOMAIN Values_by_name
          THEN <<Values_by_name[values[lo + 1][1]]>> ELSE <<>>)
         \o NamedNumbers(values, lo + 1, hi)

\* the entries lo+1..hi of the map column whose value names a value, a later entry
\* replacing an earlier one of its key
RECURSIVE NamedEntries(_, _, _, _)
NamedEntries(keys, items, lo, hi) ==
    IF lo >= hi THEN EmptyMessage
    ELSE IF items[hi][1] \in DOMAIN Values_by_name
         THEN (keys[hi][1] :> Values_by_name[items[hi][1]])
              @@ NamedEntries(keys, items, lo, hi - 1)
    ELSE NamedEntries(keys, items, lo, hi - 1)

\* C13: when an element of an enum column names no value of the enumeration,
\* extraction raises no error and the element contributes nothing: a singular field
\* stays at its default, a repeated field and a map hold the other elements only.
C13_MissingEnumValue ==
    (pc = "decoded" /\ message_type \in EnumTypes) =>
        LET column == Column(record_batch, EnumField)
        IN  /\ error = ""
            /\ Len(messages_back) = ArrayLen(record_batch)
            /\ \A i \in 1..Len(messages_back) :
                  messages_back[i][EnumField.name] =
                      CASE message_type = "EnumMsg" ->
                              IF column.values[i][1] \in DOMAIN Values_by_name
                              THEN Values_by_name[column.values[i][1]]
                              ELSE default_value(EnumField)
                        [] message_type = "RepeatedEnum" ->
                              NamedNumbers(column.values.values,
                                           column.offsets[i], column.offsets[i + 1])
                        [] message_type = "EnumMap" ->
                              NamedEntries(column.keys.values, column.items.values,
                                           column.offsets[i], column.offsets[i + 1])

\* C14: under each of the five enum representations, encoding an enum field that
\* holds a declared value and decoding the column sets the field back to the value's
\* number; with int32 the decoder recovers the value from its number.
C14_EnumRoundTrip ==
    (pc = "decoded" /\ message_type = "EnumMsg") =>
        /\ error = ""
        /\ Len(messages_back) = Len(source_messages)
        /\ \A i \in 1..Len(source_messages) :
              messages_back[i]["color"] = source_messages[i]["color"]

----------------------------------------------------------------------------
(* Columns of another type than the field derives *)

\* C15: when the declared type of a column differs from the type the descriptor
\* derives for the field of its name, record_batch_to_messages surfaces an error
\* and returns no message list, even when every stored value fits the field.
C15_TypeMismatch ==
    (pc = "decoded" /\ MismatchedColumn) => (error # "" /\ messages_back = <<>>)

----------------------------------------------------------------------------
(* Struct columns of singular sub-message fields, checked under SpecDecode *)

StructField == Fields[1]

StructColumn == Column(record_batch, StructField)

RECURSIVE StructRow(_, _, _)
\* the message of type T that slot j of the struct array describes on its own: the
\* elements of a list child are those between the offsets of slot j
StructRow(array, T, j) ==
    LET fields == DESCRIPTOR(T).fields
    IN  [name \in {fields[k].name : k \in 1..Len(fields)} |->
            LET field == fields_by_name(T, name)
                column == Column(array, field)
            IN  IF field.label = "LABEL_REPEATED"
                THEN [k \in 1..(column.offsets[j + 1] - column.offsets[j]) |->
                         IF field.type = "TYPE_MESSAGE"
                         THEN StructRow(column.values, field.message_type,
                                        column.offsets[j] + k)
                         ELSE column.values.values[column.offsets[j] + k][1]]
                ELSE column.values[j][1]]

\* C16: decoding a singular sub-message column, a row whose validity bit is unset
\* ends with the field unset whatever the children store at that row, and a row
\* whose bit is set receives exactly the child values of its own row index: the
\* writes for unset rows never shift or replace the values of valid rows.
C16_NullStructSlots ==
    (pc = "decoded" /\ message_type \in StructTypes) =>
        /\ error = ""
        /\ Len(messages_back) = ArrayLen(record_batch)
        /\ \A i \in 1..Len(messages_back) :
              IF StructColumn.valid[i]
              THEN getattr(messages_back[i], StructField)
                       = StructRow(StructColumn, StructField.message_type, i)
              ELSE ~HasField(messages_back[i], StructField.name)

----------------------------------------------------------------------------
(* Wrappers inside collections, checked under Spec *)

WrappedCollectionTypes == {"RepeatedWrapped", "WrappedMap"}

\* C17: decoding the column the encoder builds for a repeated wrapper field or for
\* a map with wrapper values raises no error and appends, or merge-assigns under
\* the key, one sub-message per element whose content equals the source element.
C17_WrappersInCollections ==
    (pc = "decoded" /\ message_type \in WrappedCollectionTypes) =>
        /\ error = ""
        /\ Len(messages_back) = Len(source_messages)
        /\ \A i \in 1..Len(source_messages) :
              messages_back[i][Fields[1].name] = source_messages[i][Fields[1].name]

----------------------------------------------------------------------------
(* Slices of record batches, checked under SpecDecode *)

RECURSIVE Slice(_, _, _)
\* array.slice(k, n): a list or map array keeps its whole child and the offsets of
\* its own slots, a struct array hands out its children sliced alike
Slice(array, k, n) ==
    CASE array.kind = "primitive" ->
            [array EXCEPT !.values = SubSeq(@, k + 1, k + n)]
      [] array.kind \in {"list", "map"} ->
            [array EXCEPT !.offsets = SubSeq(@, k + 1, k + n + 1)]
      [] array.kind = "struct" ->
            [array EXCEPT !.valid = SubSeq(@, k + 1, k + n),
                          !.children = [c \in 1..Len(@) |-> Slice(@[c], k, n)]]

\* C18: for a record batch B with a list or map column and 0 <= k <= k+n <= the
\* rows of B, record_batch_to_messages(B.slice(k, n), T) equals
\* record_batch_to_messages(B, T)[k:k+n].
C18_SliceCommutes ==
    (pc = "decoded" /\ error = "" /\ message_type \in SlicedListTypes \cup MapTypes) =>
        \A k \in 0..ArrayLen(record_batch) :
            \A n \in 0..(ArrayLen(record_batch) - k) :
                \E r \in {record_batch_to_messages(Slice(record_batch, k, n), message_type)} :
                    /\ r.error = ""
                    /\ r.messages = SubSeq(messages_back, k + 1, k + n)

----------------------------------------------------------------------------
(* Oneof groups, checked under Spec *)

\* C19: for a message type with a oneof group of two primitive members, encoding
\* then decoding preserves which member is set, or that none is, and its value: the
\* default-valued elements written for the members that were not set neither
\* switch the case nor clear the member that was set.
C19_OneofPreserved ==
    (pc = "decoded" /\ message_type = "Choice") =>
        /\ error = ""
        /\ Len(messages_back) = Len(source_messages)
        /\ \A i \in 1..Len(source_messages) :
              /\ messages_back[i]["a"] = source_messages[i]["a"]
              /\ messages_back[i]["b"] = source_messages[i]["b"]

----------------------------------------------------------------------------
(* Presence of valid struct slots, checked under SpecDecode *)

\* the batch has a struct column for the singular sub-message field of the type
HasStructColumn ==
    /\ message_type \in StructTypes \cup {"Nested"}
    /\ get_field_index(record_batch.type, StructField.name) # 0
    /\ StructColumn.kind = "struct"

\* C20: decoding a singular sub-message column, every row whose validity bit is set
\* ends with the field present, also when all child values of the row are defaults,
\* empty lists or nulls and when the sub-message type has no singular primitive
\* field.
C20_EmptySubMessagePresent ==
    (pc = "decoded" /\ HasStructColumn) =>
        /\ error = ""
        /\ \A i \in 1..Len(messages_back) :
              StructColumn.valid[i] => HasField(messages_back[i], StructField.name)

====
